---------------------------- MODULE Spec2Model ----------------------------
(***************************************************************************)
(* Model of tailscale_controld_sync.py: a one-directional synchronizer      *)
(* that makes the DNS rules of one ControlD folder match the devices and    *)
(* services of a Tailscale tailnet.                                         *)
(*                                                                         *)
(* Strings the code inspects character by character (names, suffixes,       *)
(* folder names, credentials) are sequences of one-character strings.       *)
(* Addresses are only tested for emptiness and equality and are plain       *)
(* strings.  A Python dict is a function whose DOMAIN holds the keys that   *)
(* are present; an insertion-ordered dict is a sequence of [k, v] items.    *)
(***************************************************************************)
EXTENDS Integers, Sequences, FiniteSets, TLC

(***************************************************************************)
(* Bounds of the model.                                                    *)
(***************************************************************************)
MaxRuns == 2
MaxDevices == 1
MaxServices == 1
MaxMapDevices == 2

(***************************************************************************)
(* String helpers (str.lower, str.split, str.partition, str.strip,          *)
(* str.startswith) over sequences of characters.                           *)
(***************************************************************************)
LowerChar(c) ==
    CASE c = "A" -> "a"
      [] c = "B" -> "b"
      [] c = "O" -> "o"
      [] c = "S" -> "s"
      [] c = "T" -> "t"
      [] OTHER -> c

Lower(s) == [n \in 1..Len(s) |-> LowerChar(s[n])]

\* index of the first occurrence of character c in s, 0 when there is none
FirstIndex(s, c) ==
    IF \E n \in 1..Len(s) : s[n] = c
    THEN CHOOSE n \in 1..Len(s) : s[n] = c /\ \A m \in 1..(n - 1) : s[m] # c
    ELSE 0

\* s.split(c, 1)[0]
SplitFirst(s, c) ==
    IF FirstIndex(s, c) = 0 THEN s ELSE SubSeq(s, 1, FirstIndex(s, c) - 1)

\* s.partition(c)[2]
PartitionTail(s, c) ==
    IF FirstIndex(s, c) = 0 THEN << >> ELSE SubSeq(s, FirstIndex(s, c) + 1, Len(s))

\* s.strip()
Strip(s) ==
    LET keep == {n \in 1..Len(s) : s[n] # " "}
    IN  IF keep = {} THEN << >>
        ELSE SubSeq(s, CHOOSE n \in keep : \A m \in keep : n <= m,
                       CHOOSE n \in keep : \A m \in keep : n >= m)

StartsWith(s, p) == Len(s) >= Len(p) /\ SubSeq(s, 1, Len(p)) = p

(***************************************************************************)
(* dict helpers.                                                           *)
(***************************************************************************)
\* d.get(key, default)
Get(d, key, default) == IF key \in DOMAIN d THEN d[key] ELSE default

\* key in od, for an insertion-ordered dict
Has(od, key) == \E n \in 1..Len(od) : od[n].k = key

\* od[key]
Lookup(od, key) == od[CHOOSE n \in 1..Len(od) : od[n].k = key].v

Keys(od) == {od[n].k : n \in 1..Len(od)}

\* Put with the bug of keeping the value a key already has
PutKeepsFirst(od, key, value) ==
    IF Has(od, key) THEN od ELSE Append(od, [k |-> key, v |-> value])

\* od[key] = value: an existing key keeps its position, a new key goes last
Put(od, key, value) ==
    IF Has(od, key)
    THEN [n \in 1..Len(od) |-> IF od[n].k = key THEN [k |-> key, v |-> value] ELSE od[n]]
    ELSE Append(od, [k |-> key, v |-> value])


(***************************************************************************)
(* Name mapping: get_tailscale_services and get_tailscale_records.          *)
(***************************************************************************)
\* the canonical service name: the part after the first ':', or the whole
\* name when that part is empty
CanonicalServiceName(orig_name) ==
    IF PartitionTail(orig_name, ":") # << >> THEN PartitionTail(orig_name, ":")
    ELSE orig_name

\* the loop of get_tailscale_services: every service gets its canonical name
NormalizeServices(svcs) ==
    [n \in 1..Len(svcs) |->
        [x \in (DOMAIN svcs[n]) \cup {"name"} |->
            IF x = "name" THEN CanonicalServiceName(Get(svcs[n], "name", << >>))
            ELSE svcs[n][x]]]

\* device name: first label of the node's name, lower-cased
DeviceName(node) ==
    IF Get(node, "name", << >>) # << >>
    THEN Lower(SplitFirst(Get(node, "name", << >>), "."))
    ELSE << >>

\* node.get('addresses', [''])[0] raises IndexError on an empty list
DeviceIpRaises(node) == Get(node, "addresses", <<"">>) = << >>

DeviceIp(node) == Get(node, "addresses", <<"">>)[1]

ServiceName(service) == Lower(Get(service, "name", << >>))

ServiceIp(service) ==
    IF Get(service, "addrs", << >>) # << >> THEN Get(service, "addrs", << >>)[1] ELSE ""

\* "if not name or not ip: continue"
SkipEntry(name, ip) == name = << >> \/ ip = ""

Fqdn(name, suffix) == name \o <<".">> \o suffix

\* "for suffix in DNS_SUFFIXES", from position n on
RECURSIVE AddSuffixes(_, _, _, _, _)
AddSuffixes(od, name, ip, suffixes, n) ==
    IF n > Len(suffixes) THEN od
    ELSE AddSuffixes(IF Strip(suffixes[n]) # << >>
                     THEN Put(od, Fqdn(name, Strip(suffixes[n])), ip)
                     ELSE od,
                     name, ip, suffixes, n + 1)

\* AddEntry with the bug of adding the bare name whatever the flag says
AddEntryAlwaysBare(od, name, ip, suffixes, bare) ==
    AddSuffixes(Put(od, name, ip), name, ip, suffixes, 1)

\* the body of both loops for one entry that is not skipped
AddEntry(od, name, ip, suffixes, bare) ==
    AddSuffixes(IF bare THEN Put(od, name, ip) ELSE od, name, ip, suffixes, 1)

\* "for node in tailscale_nodes", from position n on; err is the uncaught
\* IndexError
RECURSIVE AddNodes(_, _, _, _, _)
AddNodes(od, nodes, n, suffixes, bare) ==
    IF n > Len(nodes) THEN [err |-> FALSE, rec |-> od]
    ELSE IF DeviceIpRaises(nodes[n]) THEN [err |-> TRUE, rec |-> od]
    ELSE AddNodes(IF SkipEntry(DeviceName(nodes[n]), DeviceIp(nodes[n])) THEN od
                  ELSE AddEntry(od, DeviceName(nodes[n]), DeviceIp(nodes[n]), suffixes, bare),
                  nodes, n + 1, suffixes, bare)

\* "for service in tailscale_services", from position n on
RECURSIVE AddServices(_, _, _, _, _)
AddServices(od, svcs, n, suffixes, bare) ==
    IF n > Len(svcs) THEN od
    ELSE AddServices(IF SkipEntry(ServiceName(svcs[n]), ServiceIp(svcs[n])) THEN od
                     ELSE AddEntry(od, ServiceName(svcs[n]), ServiceIp(svcs[n]), suffixes, bare),
                     svcs, n + 1, suffixes, bare)

\* the two loops of get_tailscale_records over the fetched lists
BuildDesired(nodes, svcs, suffixes, bare) ==
    LET afterNodes == AddNodes(<< >>, nodes, 1, suffixes, bare)
    IN  IF afterNodes.err THEN afterNodes
        ELSE [err |-> FALSE, rec |-> AddServices(afterNodes.rec, svcs, 1, suffixes, bare)]


(***************************************************************************)
(* State.                                                                  *)
(***************************************************************************)
VARIABLES
    config,           \* config.py: name -> value, for the names it defines
    inventory,        \* the tailnet: [devices, services] as its API lists them
    store_groups,     \* ControlD: the profile's folders, dicts with group/name/PK
    store_rules,      \* ControlD: the profile's rules, dicts with PK/via/group
    backups,          \* the rule lists of the backup files in the working directory
    run,              \* number of the current invocation of the script
    pc,               \* position of the current invocation
    dry_run,          \* not args.apply
    exit_code,        \* -1 while it runs, then the process exit status
    outcome,          \* why the invocation ended
    folder_id, nodes, services, desired_records, existing_rules, existing_map,
    created, updated, deleted,
    idx,              \* position of the running for loop
    trace,            \* the requests and file writes of this invocation, in order
    ops,              \* the calls of create/update/delete_controld_record, in order
    previous,         \* the summary of the invocation before this one, if it
                      \* printed one, else << >>
    at_start          \* the store as it was when this invocation started

vars == <<config, inventory, store_groups, store_rules, backups, run, pc, dry_run,
          exit_code, outcome, folder_id, nodes, services, desired_records,
          existing_rules, existing_map, created, updated, deleted, idx, trace, ops,
          previous, at_start>>

env == <<config, inventory>>
store == <<store_groups, store_rules>>
locals == <<folder_id, nodes, services, desired_records, existing_rules, existing_map,
            created, updated, deleted, idx>>

ConfigNames == {"TAILSCALE_API_KEY", "TAILSCALE_TAILNET_ID", "CONTROLD_API_TOKEN",
                "CONTROLD_PROFILE_ID", "CONTROLD_FOLDER_NAME", "DNS_SUFFIXES",
                "CREATE_BARE_HOSTNAME"}

(***************************************************************************)
(* validate_config.                                                        *)
(***************************************************************************)
RequiredVars == {"TAILSCALE_API_KEY", "TAILSCALE_TAILNET_ID", "CONTROLD_API_TOKEN",
                 "CONTROLD_PROFILE_ID"}

YourPrefix == <<"y", "o", "u", "r", "-">>
TskeyPrefix == <<"t", "s", "k", "e", "y", "-", "a", "p", "i", "-", "x", "x", "x", "x", "x">>

\* NotConfigured with the bug of testing for emptiness only
NotConfiguredEmptyOnly(value) == value = << >>

\* "not value or value.startswith('your-') or value.startswith('tskey-api-xxxxx')"
NotConfigured(value) ==
    value = << >> \/ StartsWith(value, YourPrefix) \/ StartsWith(value, TskeyPrefix)

MissingVars(cfg) == {name \in RequiredVars : NotConfigured(cfg[name])}

(***************************************************************************)
(* The ControlD store as the script sees it.  A rule's PK is its hostname:  *)
(* the script keys its map of existing rules by PK and compares those keys  *)
(* with the desired hostnames.                                             *)
(***************************************************************************)
\* "group.get('group') or group.get('name') or ''"
GroupName(group) ==
    IF Get(group, "group", << >>) # << >> THEN Get(group, "group", << >>)
    ELSE Get(group, "name", << >>)

\* FolderMatches with the bug of comparing the names as they are written
FolderMatchesExactCase(group, folder_name) ==
    GroupName(group) # << >> /\ GroupName(group) = folder_name

\* "if group_name and group_name.lower() == CONTROLD_FOLDER_NAME.lower()"
FolderMatches(group, folder_name) ==
    GroupName(group) # << >> /\ Lower(GroupName(group)) = Lower(folder_name)

\* the id the for loop over the groups returns, 0 when no group matches
FindFolder(groups, folder_name) ==
    IF \E n \in 1..Len(groups) : FolderMatches(groups[n], folder_name)
    THEN groups[CHOOSE n \in 1..Len(groups) :
                    /\ FolderMatches(groups[n], folder_name)
                    /\ \A m \in 1..(n - 1) : ~FolderMatches(groups[m], folder_name)].PK
    ELSE 0

\* create folder: the store refuses a folder without a name
StoreAcceptsFolder(folder_name) == folder_name # << >>

\* create folder: the store assigns the next free id
NewFolderId(groups) == Len(groups) + 1

RulesInFolder(rules, fid) == SelectSeq(rules, LAMBDA r : r.group = fid)

StoreCreateRule(rules, hostname, ip, fid) ==
    Append(rules, [PK |-> hostname, via |-> ip, group |-> fid])

StoreUpdateRule(rules, rule_id, ip, fid) ==
    [n \in 1..Len(rules) |->
        IF Get(rules[n], "PK", << >>) = rule_id
        THEN [PK |-> rule_id, via |-> ip, group |-> fid]
        ELSE rules[n]]

StoreDeleteRule(rules, rule_id) ==
    SelectSeq(rules, LAMBDA r : Get(r, "PK", << >>) # rule_id)

(***************************************************************************)
(* The reconciliation of sync_dns_records.                                 *)
(***************************************************************************)
\* BuildExistingMap with the bug of never finding the address of a rule
RECURSIVE BuildExistingMapNoVia(_, _, _)
BuildExistingMapNoVia(od, rules, n) ==
    IF n > Len(rules) THEN od
    ELSE BuildExistingMapNoVia(
            IF Get(rules[n], "PK", << >>) = << >> THEN od
            ELSE Put(od, rules[n].PK, [id |-> rules[n].PK, ip |-> ""]),
            rules, n + 1)

\* BuildExistingMap with the bug of keeping the rules that have no PK
RECURSIVE BuildExistingMapKeepsAll(_, _, _)
BuildExistingMapKeepsAll(od, rules, n) ==
    IF n > Len(rules) THEN od
    ELSE BuildExistingMapKeepsAll(
            Put(od, Get(rules[n], "PK", << >>),
                [id |-> Get(rules[n], "PK", << >>), ip |-> Get(rules[n], "via", "")]),
            rules, n + 1)

\* the map of existing rules, from position n of the fetched list on
RECURSIVE BuildExistingMap(_, _, _)
BuildExistingMap(od, rules, n) ==
    IF n > Len(rules) THEN od
    ELSE BuildExistingMap(
            IF Get(rules[n], "PK", << >>) = << >> THEN od
            ELSE Put(od, rules[n].PK, [id |-> rules[n].PK, ip |-> Get(rules[n], "via", "")]),
            rules, n + 1)

\* Decide with the bug of not comparing the addresses
DecideWithoutCompare(emap, hostname, ip) ==
    IF Has(emap, hostname) THEN "update" ELSE "create"

\* what the first loop does with one desired record
Decide(emap, hostname, ip) ==
    IF Has(emap, hostname)
    THEN IF Lookup(emap, hostname).ip # ip THEN "update" ELSE "unchanged"
    ELSE "create"

\* Stale with the bug of the inverted test
StaleInverted(desired, hostname) == Has(desired, hostname)

\* "if hostname not in desired_records"
Stale(desired, hostname) == ~Has(desired, hostname)

\* create/update/delete_controld_record send a request unless dry_run
SendsRequest(dry) == ~dry

\* CallSucceeds with the bug of a dry run reporting failure
CallSucceedsOnlyLive(dry, ok) == ~dry /\ ok

\* their return value, given the outcome of the request they sent
CallSucceeds(dry, ok) == IF dry THEN TRUE ELSE ok

\* BackupWanted with the bug of backing up in dry-run mode too
BackupWantedAnyMode(dry, rules) == rules # << >>

\* "if not dry_run and existing_rules"
BackupWanted(dry, rules) == ~dry /\ rules # << >>


(***************************************************************************)
(* Initial states: the configurations, tailnets and stores explored.       *)
(***************************************************************************)
\* all sequences over S of length at most n
SeqsUpTo(S, n) == UNION {[1..m -> S] : m \in 0..n}

\* those of them that list no element twice
DistinctSeqsUpTo(S, n) ==
    {q \in SeqsUpTo(S, n) : \A i \in 1..Len(q) : \A j \in 1..Len(q) : q[i] = q[j] => i = j}

Without(f, key) == [x \in (DOMAIN f) \ {key} |-> f[x]]

KeyOk == <<"t", "s", "k", "e", "y", "-", "a", "p", "i", "-", "k">>

GoodConfig ==
    [TAILSCALE_API_KEY |-> KeyOk,
     TAILSCALE_TAILNET_ID |-> <<"-">>,
     CONTROLD_API_TOKEN |-> <<"c">>,
     CONTROLD_PROFILE_ID |-> <<"p">>,
     CONTROLD_FOLDER_NAME |-> <<"T", "s">>,
     DNS_SUFFIXES |-> << <<"t">> >>,
     CREATE_BARE_HOSTNAME |-> FALSE]

\* configurations that differ from GoodConfig in the credentials and ids
CredentialConfigs ==
    {[GoodConfig EXCEPT !.TAILSCALE_API_KEY = k, !.TAILSCALE_TAILNET_ID = t,
                        !.CONTROLD_API_TOKEN = c, !.CONTROLD_PROFILE_ID = p] :
        k \in {KeyOk, TskeyPrefix, << >>},
        t \in {<<"-">>, << >>},
        c \in {<<"c">>, YourPrefix \o <<"c">>, << >>},
        p \in {<<"p">>, YourPrefix \o <<"p">>}}

\* config.py files that do not define one of the imported names
IncompleteConfigs == {Without(GoodConfig, name) : name \in ConfigNames}

\* an empty folder name
OddConfigs == {[GoodConfig EXCEPT !.CONTROLD_FOLDER_NAME = << >>]}

\* complete, valid configurations with the naming rules varied: one suffix and
\* no bare hostname, or the bare hostname and no suffix
NamingConfigs ==
    {GoodConfig,
     [GoodConfig EXCEPT !.DNS_SUFFIXES = << >>, !.CREATE_BARE_HOSTNAME = TRUE]}

RunDevices ==
    {[name |-> <<"A", ".", "t">>, addresses |-> <<"1">>],
     [name |-> <<"a">>, addresses |-> <<"2">>]}

RunServices == {[name |-> <<"s", ":", "b">>, addrs |-> <<"1">>]}

\* a tailnet with a device that reports no address
NoAddressInventory ==
    [devices |-> << [name |-> <<"b">>, addresses |-> << >>] >>, services |-> << >>]

Inventories ==
    {[devices |-> d, services |-> s] :
        d \in DistinctSeqsUpTo(RunDevices, MaxDevices),
        s \in DistinctSeqsUpTo(RunServices, MaxServices)}
    \cup {NoAddressInventory}

BaseInventory ==
    [devices |-> << [name |-> <<"a">>, addresses |-> <<"2">>] >>, services |-> << >>]

\* the rules a folder may hold at first: one of a host of the tailnet, one of
\* a host that has left, and rules the store lists without PK or with an empty one
RuleLists(fid) ==
    {a \o b :
        a \in {<< >>, << [PK |-> <<"a", ".", "t">>, via |-> "1", group |-> fid] >>},
        b \in {<< >>, << [PK |-> <<"o", ".", "t">>, via |-> "1", group |-> fid] >>}}
    \cup {<< [via |-> "1", group |-> fid],
             [PK |-> << >>, via |-> "2", group |-> fid],
             [PK |-> <<"a", ".", "t">>, via |-> "1", group |-> fid] >>}

Stores ==
    {[groups |-> << >>, rules |-> << >>]}
    \cup {[groups |-> << [group |-> <<"t", "S">>, PK |-> 1] >>, rules |-> r] :
            r \in RuleLists(1)}
    \cup {[groups |-> << [group |-> <<"o">>, PK |-> 1], [name |-> <<"T", "S">>, PK |-> 2] >>,
           rules |-> << [PK |-> <<"o", ".", "t">>, via |-> "1", group |-> 2] >>]}

BaseStore ==
    [groups |-> << [group |-> <<"t", "S">>, PK |-> 1] >>,
     rules |-> << [PK |-> <<"o", ".", "t">>, via |-> "1", group |-> 1] >>]

\* the state of a process that has just been started
Fresh ==
    /\ pc = "import"
    /\ exit_code = -1
    /\ outcome = "running"
    /\ folder_id = 0
    /\ nodes = << >>
    /\ services = << >>
    /\ desired_records = << >>
    /\ existing_rules = << >>
    /\ existing_map = << >>
    /\ created = 0
    /\ updated = 0
    /\ deleted = 0
    /\ idx = 0
    /\ trace = << >>
    /\ ops = << >>

Init ==
    /\ \/ /\ config \in CredentialConfigs \cup IncompleteConfigs \cup OddConfigs
          /\ inventory = BaseInventory
          /\ store_groups = BaseStore.groups
          /\ store_rules = BaseStore.rules
       \/ /\ config \in NamingConfigs
          /\ inventory \in Inventories
          /\ \E st \in Stores : store_groups = st.groups /\ store_rules = st.rules
    /\ backups = {}
    /\ run = 1
    /\ dry_run \in BOOLEAN
    /\ previous = << >>
    /\ at_start = [groups |-> store_groups, rules |-> store_rules]
    /\ Fresh


(***************************************************************************)
(* Actions: one per step of an invocation.                                 *)
(***************************************************************************)
\* the process ends: sys.exit(code), an uncaught exception, or the end of main
Exit(code, why) ==
    /\ pc' = "done"
    /\ exit_code' = code
    /\ outcome' = why
    /\ previous' = previous

Goto(label) ==
    /\ pc' = label
    /\ UNCHANGED <<exit_code, outcome, previous>>

Request(kind, ok) == [kind |-> kind, ok |-> ok]

\* "from config import ...": ImportError when config.py lacks a name
ImportConfig ==
    /\ pc = "import"
    /\ UNCHANGED <<env, store, backups, run, dry_run, locals, trace, ops, at_start>>
    /\ IF ConfigNames \subseteq DOMAIN config
       THEN Goto("validate")
       ELSE Exit(1, "import_error")

ValidateConfig ==
    /\ pc = "validate"
    /\ UNCHANGED <<env, store, backups, run, dry_run, locals, trace, ops, at_start>>
    /\ IF MissingVars(config) # {}
       THEN Exit(1, "config_error")
       ELSE Goto("get_groups")

\* get_or_create_controld_rules_folder: the GET of the folders and the lookup
GetGroups ==
    /\ pc = "get_groups"
    /\ \E ok \in BOOLEAN :
        /\ trace' = Append(trace, Request("GET groups", ok))
        /\ UNCHANGED <<env, store, backups, run, dry_run, nodes, services, desired_records,
                       existing_rules, existing_map, created, updated, deleted, idx, ops,
                       at_start>>
        /\ IF ~ok
           THEN folder_id' = folder_id /\ Exit(1, "folder_error")
           ELSE IF FindFolder(store_groups, config.CONTROLD_FOLDER_NAME) # 0
           THEN /\ folder_id' = FindFolder(store_groups, config.CONTROLD_FOLDER_NAME)
                /\ Goto("get_nodes")
           ELSE folder_id' = folder_id /\ Goto("post_group")

\* get_or_create_controld_rules_folder: the POST that creates the folder
PostGroup ==
    /\ pc = "post_group"
    /\ \E ok \in (IF StoreAcceptsFolder(config.CONTROLD_FOLDER_NAME) THEN BOOLEAN ELSE {FALSE}) :
        /\ trace' = Append(trace, Request("POST groups", ok))
        /\ UNCHANGED <<env, store_rules, backups, run, dry_run, nodes, services,
                       desired_records, existing_rules, existing_map, created, updated,
                       deleted, idx, ops, at_start>>
        /\ IF ok
           THEN /\ store_groups' = Append(store_groups,
                        [group |-> config.CONTROLD_FOLDER_NAME,
                         PK |-> NewFolderId(store_groups)])
                /\ folder_id' = NewFolderId(store_groups)
                /\ Goto("get_nodes")
           ELSE /\ UNCHANGED <<store_groups, folder_id>>
                /\ Exit(1, "folder_error")

GetNodes ==
    /\ pc = "get_nodes"
    /\ \E ok \in BOOLEAN :
        /\ trace' = Append(trace, Request("GET devices", ok))
        /\ UNCHANGED <<env, store, backups, run, dry_run, folder_id, services,
                       desired_records, existing_rules, existing_map, created, updated,
                       deleted, idx, ops, at_start>>
        /\ IF ok
           THEN nodes' = inventory.devices /\ Goto("get_services")
           ELSE nodes' = nodes /\ Exit(1, "nodes_error")

GetServices ==
    /\ pc = "get_services"
    /\ \E ok \in BOOLEAN :
        /\ trace' = Append(trace, Request("GET services", ok))
        /\ UNCHANGED <<env, store, backups, run, dry_run, folder_id, nodes,
                       desired_records, existing_rules, existing_map, created, updated,
                       deleted, idx, ops, at_start>>
        /\ IF ok
           THEN services' = NormalizeServices(inventory.services) /\ Goto("build_records")
           ELSE services' = services /\ Exit(1, "services_error")

\* the two loops of get_tailscale_records
BuildRecords ==
    /\ pc = "build_records"
    /\ UNCHANGED <<env, store, backups, run, dry_run, folder_id, nodes, services,
                   existing_rules, existing_map, created, updated, deleted, idx, trace,
                   ops, at_start>>
    /\ LET built == BuildDesired(nodes, services, config.DNS_SUFFIXES,
                                 config.CREATE_BARE_HOSTNAME)
       IN  IF built.err
           THEN desired_records' = desired_records /\ Exit(1, "index_error")
           ELSE desired_records' = built.rec /\ Goto("get_rules")

\* GetRules with the bug of going on with no rules when the fetch failed
GetRulesGoesOn ==
    /\ pc = "get_rules"
    /\ \E ok \in BOOLEAN :
        /\ trace' = Append(trace, Request("GET rules", ok))
        /\ UNCHANGED <<env, store, backups, run, dry_run, folder_id, nodes, services,
                       desired_records, existing_map, created, updated, deleted, idx, ops,
                       at_start>>
        /\ existing_rules' = IF ok THEN RulesInFolder(store_rules, folder_id) ELSE << >>
        /\ Goto("backup")

\* get_controld_records: the GET of the folder's rules
GetRules ==
    /\ pc = "get_rules"
    /\ \E ok \in BOOLEAN :
        /\ trace' = Append(trace, Request("GET rules", ok))
        /\ UNCHANGED <<env, store, backups, run, dry_run, folder_id, nodes, services,
                       desired_records, existing_map, created, updated, deleted, idx, ops,
                       at_start>>
        /\ IF ok
           THEN existing_rules' = RulesInFolder(store_rules, folder_id) /\ Goto("backup")
           ELSE existing_rules' = existing_rules /\ Exit(1, "rules_error")

\* Backup with the bug of ending the run when the backup cannot be written
BackupFatal ==
    /\ pc = "backup"
    /\ UNCHANGED <<env, store, run, dry_run, folder_id, nodes, services, desired_records,
                   existing_rules, created, updated, deleted, ops, at_start>>
    /\ IF BackupWanted(dry_run, existing_rules)
       THEN \E ok \in BOOLEAN :
               /\ trace' = Append(trace, [kind |-> "backup", ok |-> ok,
                                          rules |-> existing_rules])
               /\ backups' = IF ok THEN backups \cup {existing_rules} ELSE backups
               /\ IF ok
                  THEN /\ existing_map' = BuildExistingMap(<< >>, existing_rules, 1)
                       /\ idx' = 1
                       /\ Goto("sync_loop")
                  ELSE /\ UNCHANGED <<existing_map, idx>>
                       /\ Exit(1, "backup_error")
       ELSE /\ UNCHANGED <<trace, backups>>
            /\ existing_map' = BuildExistingMap(<< >>, existing_rules, 1)
            /\ idx' = 1
            /\ Goto("sync_loop")

\* create_backup, when it is called; then the map of the existing rules
Backup ==
    /\ pc = "backup"
    /\ UNCHANGED <<env, store, run, dry_run, folder_id, nodes, services, desired_records,
                   existing_rules, created, updated, deleted, ops, at_start>>
    /\ existing_map' = BuildExistingMap(<< >>, existing_rules, 1)
    /\ idx' = 1
    /\ Goto("sync_loop")
    /\ IF BackupWanted(dry_run, existing_rules)
       THEN \E ok \in BOOLEAN :
               /\ trace' = Append(trace, [kind |-> "backup", ok |-> ok,
                                          rules |-> existing_rules])
               /\ backups' = IF ok THEN backups \cup {existing_rules} ELSE backups
       ELSE UNCHANGED <<trace, backups>>


\* one call of create/update/delete_controld_record and what it brings about
RuleCall(op, rule_id, hostname, ip, ok) ==
    /\ ops' = Append(ops, [op |-> op, id |-> rule_id, hostname |-> hostname, ip |-> ip,
                           group |-> folder_id, ok |-> CallSucceeds(dry_run, ok)])
    /\ trace' = IF SendsRequest(dry_run)
                THEN Append(trace, [kind |-> op, ok |-> ok, id |-> rule_id,
                                    hostname |-> hostname, ip |-> ip, group |-> folder_id])
                ELSE trace
    /\ store_rules' =
            IF SendsRequest(dry_run) /\ ok
            THEN CASE op = "create" -> StoreCreateRule(store_rules, hostname, ip, folder_id)
                   [] op = "update" -> StoreUpdateRule(store_rules, rule_id, ip, folder_id)
                   [] op = "delete" -> StoreDeleteRule(store_rules, rule_id)
            ELSE store_rules

\* the outcomes a call can have: a request that is sent may fail
Outcomes == IF SendsRequest(dry_run) THEN BOOLEAN ELSE {TRUE}

\* Bump with the bug of counting a call whatever it returned
BumpAlways(counter, ok) == counter + 1

\* "if create/update/delete_controld_record(...): counter += 1"
Bump(counter, ok) == IF CallSucceeds(dry_run, ok) THEN counter + 1 ELSE counter

InSyncLoop ==
    /\ pc = "sync_loop"
    /\ idx <= Len(desired_records)

\* SyncCreate with the bug of trying a create that failed a second time
SyncCreateRetries ==
    /\ InSyncLoop
    /\ Decide(existing_map, desired_records[idx].k, desired_records[idx].v) = "create"
    /\ \E ok \in Outcomes :
        /\ RuleCall("create", << >>, desired_records[idx].k, desired_records[idx].v, ok)
        /\ created' = Bump(created, ok)
        /\ idx' = IF ~ok /\ (ops = << >> \/ ops[Len(ops)].hostname # desired_records[idx].k)
                  THEN idx
                  ELSE idx + 1
    /\ Goto("sync_loop")
    /\ UNCHANGED <<env, store_groups, backups, run, dry_run, folder_id, nodes, services,
                   desired_records, existing_rules, existing_map, updated, deleted,
                   at_start>>

\* first loop, "else" branch: the hostname has no rule yet
SyncCreate ==
    /\ InSyncLoop
    /\ Decide(existing_map, desired_records[idx].k, desired_records[idx].v) = "create"
    /\ \E ok \in Outcomes :
        /\ RuleCall("create", << >>, desired_records[idx].k, desired_records[idx].v, ok)
        /\ created' = Bump(created, ok)
    /\ idx' = idx + 1
    /\ Goto("sync_loop")
    /\ UNCHANGED <<env, store_groups, backups, run, dry_run, folder_id, nodes, services,
                   desired_records, existing_rules, existing_map, updated, deleted,
                   at_start>>

\* first loop: the hostname has a rule with another address
SyncUpdate ==
    /\ InSyncLoop
    /\ Decide(existing_map, desired_records[idx].k, desired_records[idx].v) = "update"
    /\ \E ok \in Outcomes :
        /\ RuleCall("update", Lookup(existing_map, desired_records[idx].k).id,
                    desired_records[idx].k, desired_records[idx].v, ok)
        /\ updated' = Bump(updated, ok)
    /\ idx' = idx + 1
    /\ Goto("sync_loop")
    /\ UNCHANGED <<env, store_groups, backups, run, dry_run, folder_id, nodes, services,
                   desired_records, existing_rules, existing_map, created, deleted,
                   at_start>>

\* first loop: the hostname has a rule with the same address
SyncUnchanged ==
    /\ InSyncLoop
    /\ Decide(existing_map, desired_records[idx].k, desired_records[idx].v) = "unchanged"
    /\ idx' = idx + 1
    /\ Goto("sync_loop")
    /\ UNCHANGED <<env, store, backups, run, dry_run, folder_id, nodes, services,
                   desired_records, existing_rules, existing_map, created, updated,
                   deleted, trace, ops, at_start>>

\* SyncEnd with the bug of fetching the rules again before the second loop
SyncEndRefetches ==
    /\ pc = "sync_loop"
    /\ idx > Len(desired_records)
    /\ idx' = 1
    /\ Goto("delete_loop")
    /\ trace' = Append(trace, Request("GET rules", TRUE))
    /\ UNCHANGED <<env, store, backups, run, dry_run, folder_id, nodes, services,
                   desired_records, existing_rules, existing_map, created, updated,
                   deleted, ops, at_start>>

\* the first loop is over, the second begins
SyncEnd ==
    /\ pc = "sync_loop"
    /\ idx > Len(desired_records)
    /\ idx' = 1
    /\ Goto("delete_loop")
    /\ UNCHANGED <<env, store, backups, run, dry_run, folder_id, nodes, services,
                   desired_records, existing_rules, existing_map, created, updated,
                   deleted, trace, ops, at_start>>

InDeleteLoop ==
    /\ pc = "delete_loop"
    /\ idx <= Len(existing_map)

\* second loop: a rule whose hostname is no longer desired
DeleteStale ==
    /\ InDeleteLoop
    /\ Stale(desired_records, existing_map[idx].k)
    /\ \E ok \in Outcomes :
        /\ RuleCall("delete", existing_map[idx].v.id, existing_map[idx].k, "", ok)
        /\ deleted' = Bump(deleted, ok)
    /\ idx' = idx + 1
    /\ Goto("delete_loop")
    /\ UNCHANGED <<env, store_groups, backups, run, dry_run, folder_id, nodes, services,
                   desired_records, existing_rules, existing_map, created, updated,
                   at_start>>

\* second loop: a rule whose hostname is desired
DeleteKeep ==
    /\ InDeleteLoop
    /\ ~Stale(desired_records, existing_map[idx].k)
    /\ idx' = idx + 1
    /\ Goto("delete_loop")
    /\ UNCHANGED <<env, store, backups, run, dry_run, folder_id, nodes, services,
                   desired_records, existing_rules, existing_map, created, updated,
                   deleted, trace, ops, at_start>>

\* the summary is printed and the process ends
Summary ==
    /\ pc = "delete_loop"
    /\ idx > Len(existing_map)
    /\ UNCHANGED <<env, store, backups, run, dry_run, locals, trace, ops, at_start>>
    /\ Exit(0, "ok")

\* what an invocation that printed its summary leaves to compare with
RunSummary ==
    [dry_run |-> dry_run, outcome |-> outcome,
     desired |-> desired_records, existing |-> existing_map,
     created |-> created, updated |-> updated, deleted |-> deleted,
     trace |-> trace]

\* the script is invoked again, with or without --apply
StartRun ==
    /\ pc = "done"
    /\ run < MaxRuns
    /\ run' = run + 1
    /\ dry_run' \in BOOLEAN
    /\ at_start' = [groups |-> store_groups, rules |-> store_rules]
    /\ pc' = "import"
    /\ exit_code' = -1
    /\ outcome' = "running"
    /\ folder_id' = 0
    /\ nodes' = << >>
    /\ services' = << >>
    /\ desired_records' = << >>
    /\ existing_rules' = << >>
    /\ existing_map' = << >>
    /\ created' = 0
    /\ updated' = 0
    /\ deleted' = 0
    /\ idx' = 0
    /\ trace' = << >>
    /\ ops' = << >>
    /\ previous' = IF outcome = "ok" THEN << RunSummary >> ELSE << >>
    /\ UNCHANGED <<env, store, backups>>

Next ==
    \/ ImportConfig
    \/ ValidateConfig
    \/ GetGroups
    \/ PostGroup
    \/ GetNodes
    \/ GetServices
    \/ BuildRecords
    \/ GetRules
    \/ Backup
    \/ SyncCreate
    \/ SyncUpdate
    \/ SyncUnchanged
    \/ SyncEnd
    \/ DeleteStale
    \/ DeleteKeep
    \/ Summary
    \/ StartRun

Spec == Init /\ [][Next]_vars


(***************************************************************************)
(* get_tailscale_records on its own: the two fetches and the two loops,     *)
(* over a wider choice of devices, services, suffixes and flag.            *)
(***************************************************************************)
MapDevices ==
    {[name |-> <<"A", ".", "t">>, addresses |-> <<"1">>],
     [name |-> <<"a">>, addresses |-> <<"2", "1">>],
     [name |-> <<"b">>, addresses |-> <<"1">>],
     [addresses |-> <<"1">>],
     [name |-> <<".", "a">>, addresses |-> <<"1">>],
     [name |-> <<"b">>],
     [name |-> <<"b">>, addresses |-> << >>]}

MapServices ==
    {[name |-> <<"s", ":", "a">>, addrs |-> <<"2">>],
     [name |-> <<"B">>, addrs |-> <<"1", "2">>],
     [name |-> <<"s", ":">>, addrs |-> <<"1">>],
     [addrs |-> <<"1">>],
     [name |-> <<"b">>, addrs |-> << >>],
     [name |-> <<"b">>]}

MapSuffixLists ==
    {<< >>, << <<"t">> >>, << <<" ", "t", " ">>, <<" ">> >>, << <<"t">>, <<"s">> >>}

MapInit ==
    /\ \E sfx \in MapSuffixLists, bare \in BOOLEAN :
          config = [GoodConfig EXCEPT !.DNS_SUFFIXES = sfx, !.CREATE_BARE_HOSTNAME = bare]
    /\ \E d \in SeqsUpTo(MapDevices, MaxMapDevices), sv \in SeqsUpTo(MapServices, MaxServices) :
          inventory = [devices |-> d, services |-> sv]
    /\ store_groups = BaseStore.groups
    /\ store_rules = BaseStore.rules
    /\ backups = {}
    /\ run = 1
    /\ dry_run = TRUE
    /\ previous = << >>
    /\ at_start = [groups |-> store_groups, rules |-> store_rules]
    /\ pc = "get_nodes"
    /\ exit_code = -1
    /\ outcome = "running"
    /\ folder_id = 1
    /\ nodes = << >>
    /\ services = << >>
    /\ desired_records = << >>
    /\ existing_rules = << >>
    /\ existing_map = << >>
    /\ created = 0
    /\ updated = 0
    /\ deleted = 0
    /\ idx = 0
    /\ trace = << >>
    /\ ops = << >>

MapNext == GetNodes \/ GetServices \/ BuildRecords

SpecMapper == MapInit /\ [][MapNext]_vars

(***************************************************************************)
(* Properties of the name mapping.                                         *)
(***************************************************************************)
\* get_tailscale_records has returned its mapping
Built == pc \in {"get_rules", "backup", "sync_loop", "delete_loop"} \/ outcome \in {"ok", "rules_error"}

\* the loops of get_tailscale_records have run, to their end or to an exception
LoopsRan == Built \/ outcome = "index_error"

FirstOrEmpty(list) == IF list = << >> THEN "" ELSE list[1]

EntryCount == Len(nodes) + Len(services)

\* the inventory entries in input order, devices then services: the name
\* (lower-cased, for devices cut at the first dot) and the first address
EntryName(n) ==
    IF n <= Len(nodes)
    THEN Lower(SplitFirst(Get(nodes[n], "name", << >>), "."))
    ELSE Lower(Get(services[n - Len(nodes)], "name", << >>))

EntryAddress(n) ==
    IF n <= Len(nodes)
    THEN FirstOrEmpty(Get(nodes[n], "addresses", << >>))
    ELSE FirstOrEmpty(Get(services[n - Len(nodes)], "addrs", << >>))

Incomplete(n) == EntryName(n) = << >> \/ EntryAddress(n) = ""

TrimmedSuffixes ==
    {Strip(config.DNS_SUFFIXES[n]) : n \in 1..Len(config.DNS_SUFFIXES)} \ {<< >>}

\* the hostnames entry n is to be known by
KeysOf(n) ==
    IF Incomplete(n) THEN {}
    ELSE {EntryName(n) \o <<".">> \o sfx : sfx \in TrimmedSuffixes}
         \cup (IF config.CREATE_BARE_HOSTNAME THEN {EntryName(n)} ELSE {})

AllKeys == UNION {KeysOf(n) : n \in 1..EntryCount}

\* C8 as stated: the mapping holds exactly the keys of the complete entries,
\* each key of an entry mapped to that entry's address.
C8_EveryKeyItsEntrysAddress ==
    Built =>
        /\ Keys(desired_records) = AllKeys
        /\ \A n \in 1..EntryCount : \A key \in KeysOf(n) :
              Lookup(desired_records, key) = EntryAddress(n)

\* C8 amended: the mapping holds exactly the keys of the complete entries, and
\* a key is mapped to the address of the last entry that yields it.
C8_ExactKeys ==
    Built =>
        /\ Keys(desired_records) = AllKeys
        /\ Len(desired_records) = Cardinality(AllKeys)
        /\ \A n \in 1..EntryCount : \A key \in KeysOf(n) :
              (\A m \in (n + 1)..EntryCount : key \notin KeysOf(m))
                  => Lookup(desired_records, key) = EntryAddress(n)

\* a mapping was built from complete entries, with suffixes and the bare name
C8_Witness ==
    /\ Built
    /\ config.CREATE_BARE_HOSTNAME
    /\ Cardinality(TrimmedSuffixes) = 2
    /\ \E n \in 1..EntryCount : ~Incomplete(n)
    /\ \E n \in 1..EntryCount : Incomplete(n)

\* C9: when two entries yield the same hostname, the mapping has the address of
\* the later one in input order (devices, then services), and a collision is
\* no error: the loops fail only on a device with an empty address list.
C9_LastWriteWins ==
    /\ Built =>
          \A n \in 1..EntryCount : \A m \in (n + 1)..EntryCount :
              \A key \in KeysOf(n) \cap KeysOf(m) :
                  (\A l \in (m + 1)..EntryCount : key \notin KeysOf(l))
                      => Lookup(desired_records, key) = EntryAddress(m)
    /\ outcome = "index_error" =>
          \E n \in 1..Len(nodes) : Get(nodes[n], "addresses", <<"">>) = << >>

\* a device and a service with different addresses yield the same hostname
C9_Witness ==
    /\ Built
    /\ \E n \in 1..Len(nodes) : \E m \in (Len(nodes) + 1)..EntryCount :
          /\ KeysOf(n) \cap KeysOf(m) # {}
          /\ EntryAddress(n) # EntryAddress(m)

\* C10 as stated: an entry without name or without address (an empty address
\* list included) is skipped silently: the loops raise no error and the mapping
\* holds the keys of the other entries.
C10_SkippedSilently ==
    LoopsRan =>
        /\ outcome # "index_error"
        /\ Keys(desired_records) = AllKeys


(***************************************************************************)
(* Properties of a run and of two successive runs.                         *)
(***************************************************************************)
RuleKinds == {"create", "update", "delete"}

\* the requests of one kind in a trace, and those among them that succeeded
Sent(tr, kind) == {n \in 1..Len(tr) : tr[n].kind = kind}
Succeeded(tr, kind) == {n \in 1..Len(tr) : tr[n].kind = kind /\ tr[n].ok}

Pairs(od) == {<<od[n].k, od[n].v>> : n \in 1..Len(od)}

\* the operations the diff of a desired mapping and an existing-rule map asks for
WantedCreates(desired, existing) ==
    {[op |-> "create", hostname |-> h, ip |-> Lookup(desired, h)] :
        h \in Keys(desired) \ Keys(existing)}

WantedUpdates(desired, existing) ==
    {[op |-> "update", id |-> Lookup(existing, h).id, hostname |-> h,
      ip |-> Lookup(desired, h)] :
        h \in {x \in Keys(desired) \cap Keys(existing) :
                  Lookup(existing, x).ip # Lookup(desired, x)}}

WantedDeletes(desired, existing) ==
    {[op |-> "delete", id |-> Lookup(existing, h).id] : h \in Keys(existing) \ Keys(desired)}

\* what a logged call or request says of itself, by kind
Said(e) ==
    CASE e.op = "create" -> [op |-> "create", hostname |-> e.hostname, ip |-> e.ip]
      [] e.op = "update" -> [op |-> "update", id |-> e.id, hostname |-> e.hostname, ip |-> e.ip]
      [] e.op = "delete" -> [op |-> "delete", id |-> e.id]

RuleRequests(tr) == SelectSeq(tr, LAMBDA e : e.kind \in RuleKinds)

\* the run before this one and this one both reached their summary, one in
\* dry-run and one in apply mode, on the same desired mapping and existing rules
SameSnapshotPair ==
    /\ previous # << >>
    /\ outcome = "ok"
    /\ previous[1].outcome = "ok"
    /\ previous[1].dry_run # dry_run
    /\ previous[1].desired = desired_records
    /\ previous[1].existing = existing_map

DryOfPair == IF dry_run THEN RunSummary ELSE previous[1]
ApplyOfPair == IF dry_run THEN previous[1] ELSE RunSummary

\* C1 as stated: on the same snapshot the counts of a dry run equal the counts
\* of an apply run.
C1_DryEqualsApply ==
    SameSnapshotPair =>
        /\ DryOfPair.created = ApplyOfPair.created
        /\ DryOfPair.updated = ApplyOfPair.updated
        /\ DryOfPair.deleted = ApplyOfPair.deleted

\* C1 amended: on the same snapshot the counts of a dry run equal the numbers of
\* create, update and delete requests the apply run sends, and the counts of
\* the apply run are the numbers of those requests that succeeded.
C1_DryCountsWhatApplyAttempts ==
    SameSnapshotPair =>
        /\ DryOfPair.created = Cardinality(Sent(ApplyOfPair.trace, "create"))
        /\ DryOfPair.updated = Cardinality(Sent(ApplyOfPair.trace, "update"))
        /\ DryOfPair.deleted = Cardinality(Sent(ApplyOfPair.trace, "delete"))
        /\ ApplyOfPair.created = Cardinality(Succeeded(ApplyOfPair.trace, "create"))
        /\ ApplyOfPair.updated = Cardinality(Succeeded(ApplyOfPair.trace, "update"))
        /\ ApplyOfPair.deleted = Cardinality(Succeeded(ApplyOfPair.trace, "delete"))

\* a dry run previewed several operations and the apply run lost one of them
C1_Witness ==
    /\ SameSnapshotPair
    /\ ~dry_run
    /\ DryOfPair.created + DryOfPair.updated + DryOfPair.deleted >= 2
    /\ ApplyOfPair.created + ApplyOfPair.updated + ApplyOfPair.deleted >= 1
    /\ \E n \in 1..Len(trace) : trace[n].kind \in RuleKinds /\ ~trace[n].ok

\* two apply runs in a row reached their summary
TwoApplyRuns ==
    /\ previous # << >>
    /\ ~previous[1].dry_run
    /\ previous[1].outcome = "ok"
    /\ ~dry_run
    /\ outcome = "ok"

NothingToDo ==
    /\ created = 0
    /\ updated = 0
    /\ deleted = 0
    /\ ops = << >>
    /\ {<<existing_map[n].k, existing_map[n].v.ip>> : n \in 1..Len(existing_map)}
            = Pairs(desired_records)

NoCallFailed(tr) == \A n \in 1..Len(tr) : tr[n].kind \in RuleKinds => tr[n].ok

MutatingKinds == {"POST groups", "create", "update", "delete"}

\* C3 as stated: a dry run sends no create-folder, create-rule, update-rule or
\* delete-rule request and leaves the store's folders and rules as they were.
C3_DryRunSendsNoMutation ==
    dry_run =>
        /\ \A n \in 1..Len(trace) : trace[n].kind \notin MutatingKinds
        /\ store_groups = at_start.groups
        /\ store_rules = at_start.rules

\* C4: in apply mode a failed call does not end the run: a run that has made a
\* call reaches its summary, every operation of the diff is attempted, and
\* the counts are the numbers of calls that succeeded.
C4_FailuresAreIsolated ==
    /\ (pc = "done" /\ ops # << >>) => outcome = "ok"
    /\ (outcome = "ok" /\ ~dry_run) =>
          /\ {Said([op |-> trace[n].kind, id |-> trace[n].id,
                    hostname |-> trace[n].hostname, ip |-> trace[n].ip]) :
                  n \in {m \in 1..Len(trace) : trace[m].kind \in RuleKinds}}
                = WantedCreates(desired_records, existing_map)
                  \cup WantedUpdates(desired_records, existing_map)
                  \cup WantedDeletes(desired_records, existing_map)
          /\ created = Cardinality(Succeeded(trace, "create"))
          /\ updated = Cardinality(Succeeded(trace, "update"))
          /\ deleted = Cardinality(Succeeded(trace, "delete"))
          /\ (Cardinality(Sent(trace, "create")) = Cardinality(Succeeded(trace, "create")) + 1
                => created = Cardinality(Keys(desired_records) \ Keys(existing_map)) - 1)

\* a create failed, and later calls of the same run were made and succeeded
C4_Witness ==
    /\ outcome = "ok"
    /\ ~dry_run
    /\ \E n \in 1..Len(trace) :
          /\ trace[n].kind = "create"
          /\ ~trace[n].ok
          /\ \E m \in (n + 1)..Len(trace) : trace[m].kind \in RuleKinds /\ trace[m].ok
    /\ created + updated + deleted >= 1

\* C5: the calls of a run are exactly the operations of the diff, each once: a
\* create per hostname only desired, an update with the rule's id and the
\* desired address per hostname in both with differing addresses, a delete by
\* id per hostname only existing, nothing for a hostname with equal addresses.
C5_ExactlyTheDiff ==
    /\ {Said(ops[n]) : n \in 1..Len(ops)}
            \subseteq WantedCreates(desired_records, existing_map)
                      \cup WantedUpdates(desired_records, existing_map)
                      \cup WantedDeletes(desired_records, existing_map)
    /\ \A n \in 1..Len(ops) : \A m \in 1..Len(ops) : Said(ops[n]) = Said(ops[m]) => n = m
    /\ \A n \in 1..Len(ops) : ops[n].op # "delete" => ops[n].group = folder_id
    /\ outcome = "ok" =>
          {Said(ops[n]) : n \in 1..Len(ops)}
              = WantedCreates(desired_records, existing_map)
                \cup WantedUpdates(desired_records, existing_map)
                \cup WantedDeletes(desired_records, existing_map)
    /\ ~dry_run => Len(RuleRequests(trace)) = Len(ops)

\* a run with a create, a delete and a rule left alone
C5_Witness ==
    /\ outcome = "ok"
    /\ \E n \in 1..Len(ops) : ops[n].op = "create"
    /\ \E n \in 1..Len(ops) : ops[n].op = "delete"
    /\ \E h \in Keys(desired_records) \cap Keys(existing_map) :
          Lookup(existing_map, h).ip = Lookup(desired_records, h)

FetchKinds == {"GET groups", "POST groups", "GET devices", "GET services", "GET rules"}

FetchErrors == {"folder_error", "nodes_error", "services_error", "rules_error"}

\* C6: a failed folder, device, service or rule fetch is the last thing the run
\* does: the process exits with an error, and the run has sent no create-rule,
\* update-rule or delete-rule request and written no backup.
C6_FetchFailureIsFatal ==
    /\ \A n \in 1..Len(trace) :
          (trace[n].kind \in FetchKinds /\ ~trace[n].ok) =>
              /\ n = Len(trace)
              /\ pc = "done"
              /\ exit_code = 1
              /\ outcome \in FetchErrors
    /\ outcome \in FetchErrors =>
          /\ \A n \in 1..Len(trace) : trace[n].kind \notin RuleKinds \cup {"backup"}
          /\ ops = << >>
          /\ store_rules = at_start.rules
          /\ ~trace[Len(trace)].ok

\* an apply run whose fetch of the existing rules failed, stale rules in place
C6_Witness ==
    /\ outcome = "rules_error"
    /\ ~dry_run
    /\ RulesInFolder(store_rules, folder_id) # << >>
    /\ desired_records # << >>

\* a value of config.py that is not there or not filled in
Unset(cfg, name) ==
    \/ name \notin DOMAIN cfg
    \/ /\ name \in RequiredVars \cup {"CONTROLD_FOLDER_NAME"}
       /\ \/ cfg[name] = << >>
          \/ Len(cfg[name]) >= 5 /\ SubSeq(cfg[name], 1, 5) = <<"y", "o", "u", "r", "-">>
          \/ Len(cfg[name]) >= 15 /\ SubSeq(cfg[name], 1, 15) = TskeyPrefix

\* no request has been sent, and the run, if over, ended in a fatal error of
\* the configuration
NoNetworkCall ==
    /\ trace = << >>
    /\ pc = "done" => exit_code = 1 /\ outcome \in {"import_error", "config_error"}

\* the run does not get past validate_config
StoppedBeforeNetwork ==
    /\ NoNetworkCall
    /\ pc \in {"import", "validate", "done"}

\* C7 as stated: when one of the seven configuration values is missing or a
\* placeholder, the run ends in a fatal error before any network call.
C7_AnyUnsetValueStopsTheRun ==
    (\E name \in ConfigNames : Unset(config, name)) => NoNetworkCall

\* C7 amended: when config.py lacks one of the seven names, or one of the two
\* credentials, the tailnet id or the profile id is empty or a placeholder, the
\* run ends in a fatal error before any network call.
C7_UnsetCredentialStopsTheRun ==
    (\E name \in ConfigNames : name \notin DOMAIN config \/ (name \in RequiredVars /\ Unset(config, name)))
        => StoppedBeforeNetwork

\* the run has ended on the placeholder API key of the example configuration
C7_Witness ==
    /\ pc = "done"
    /\ outcome = "config_error"
    /\ config.TAILSCALE_API_KEY = TskeyPrefix
    /\ config.CONTROLD_API_TOKEN = <<"c">>


(***************************************************************************)
(* The backup of the existing rules.                                       *)
(***************************************************************************)
\* the run has fetched the existing rules and is past the place of the backup
PastBackup == pc \in {"sync_loop", "delete_loop"} \/ outcome = "ok"

\* C11: a run that fetched the existing rules attempts a backup exactly when
\* it is in apply mode and the fetched list is not empty, and no other run
\* attempts one; the attempt comes after the fetch of the rules and before
\* every create, update and delete request, and what it writes is the whole
\* list as fetched, which a successful write leaves among the backups.
C11_BackupBeforeMutations ==
    /\ Cardinality(Sent(trace, "backup")) <= 1
    /\ ~PastBackup => Sent(trace, "backup") = {}
    /\ PastBackup => (Sent(trace, "backup") # {} <=> (~dry_run /\ existing_rules # << >>))
    /\ \A n \in Sent(trace, "backup") :
        /\ \E m \in 1..(n - 1) : trace[m].kind = "GET rules" /\ trace[m].ok
        /\ \A m \in 1..Len(trace) : trace[m].kind \in RuleKinds => n < m
        /\ trace[n].rules = existing_rules
        /\ trace[n].rules = RulesInFolder(at_start.rules, folder_id)
        /\ trace[n].ok => trace[n].rules \in backups

\* an apply run wrote a backup of several rules, one of them without an
\* identifier, and then sent a create, update or delete request
C11_Witness ==
    /\ ~dry_run
    /\ \E n \in Sent(trace, "backup") :
        /\ trace[n].ok
        /\ Len(trace[n].rules) >= 2
        /\ \E k \in 1..Len(trace[n].rules) : "PK" \notin DOMAIN trace[n].rules[k]
        /\ \E m \in (n + 1)..Len(trace) : trace[m].kind \in RuleKinds


\* the operations of the diff in the order of the two loops: a create or an
\* update per desired hostname in the order of the desired mapping, then a
\* delete per stale hostname in the order of the existing-rule map
ExpectedSync(desired, existing) ==
    LET todo == SelectSeq(desired, LAMBDA e : e.k \notin Keys(existing)
                                              \/ Lookup(existing, e.k).ip # e.v)
    IN  [n \in 1..Len(todo) |->
            IF todo[n].k \in Keys(existing)
            THEN [op |-> "update", id |-> Lookup(existing, todo[n].k).id,
                  hostname |-> todo[n].k, ip |-> todo[n].v]
            ELSE [op |-> "create", hostname |-> todo[n].k, ip |-> todo[n].v]]

ExpectedDeletes(desired, existing) ==
    LET todo == SelectSeq(existing, LAMBDA e : e.k \notin Keys(desired))
    IN  [n \in 1..Len(todo) |-> [op |-> "delete", id |-> todo[n].v.id]]

ExpectedOps(desired, existing) ==
    ExpectedSync(desired, existing) \o ExpectedDeletes(desired, existing)

\* what the calls of a run, and the rule requests of a trace, say in order
SaidCalls(calls) == [n \in 1..Len(calls) |-> Said(calls[n])]

SaidRequests(tr) ==
    LET reqs == RuleRequests(tr)
    IN  [n \in 1..Len(reqs) |->
            Said([op |-> reqs[n].kind, id |-> reqs[n].id,
                  hostname |-> reqs[n].hostname, ip |-> reqs[n].ip])]

RequestResults(tr) ==
    LET reqs == RuleRequests(tr) IN [n \in 1..Len(reqs) |-> reqs[n].ok]

BackupFailed(tr) == \E n \in Sent(tr, "backup") : ~tr[n].ok
BackupWritten(tr) == \E n \in Sent(tr, "backup") : tr[n].ok

\* C12: a backup that cannot be written does not end the run: the run goes on
\* to its summary with exit code 0, its calls are the operations of the diff
\* in order and its counts the numbers of calls that succeeded, none of which
\* depends on the backup; and of two successive apply runs on the same desired
\* mapping and existing rules, one with its backup written and one without,
\* both send the same requests, and report the same counts when the same
\* requests succeed.
C12_BackupFailureIsNotFatal ==
    /\ BackupFailed(trace) => (outcome \in {"running", "ok"} /\ exit_code # 1)
    /\ (BackupFailed(trace) /\ pc = "done") =>
          /\ outcome = "ok"
          /\ exit_code = 0
          /\ SaidCalls(ops) = ExpectedOps(desired_records, existing_map)
          /\ SaidRequests(trace) = ExpectedOps(desired_records, existing_map)
          /\ created = Cardinality(Succeeded(trace, "create"))
          /\ updated = Cardinality(Succeeded(trace, "update"))
          /\ deleted = Cardinality(Succeeded(trace, "delete"))
    /\ (/\ TwoApplyRuns
        /\ previous[1].desired = desired_records
        /\ previous[1].existing = existing_map
        /\ BackupFailed(previous[1].trace) # BackupFailed(trace)
        /\ BackupWritten(previous[1].trace) # BackupWritten(trace)) =>
          /\ SaidRequests(previous[1].trace) = SaidRequests(trace)
          /\ RequestResults(previous[1].trace) = RequestResults(trace) =>
                /\ previous[1].created = created
                /\ previous[1].updated = updated
                /\ previous[1].deleted = deleted

\* two apply runs on the same rules, the first with its backup written and
\* the second without: both sent the same requests, and the second, whose
\* backup failed, had a request that succeeded
C12_Witness ==
    /\ TwoApplyRuns
    /\ previous[1].existing = existing_map
    /\ BackupWritten(previous[1].trace)
    /\ BackupFailed(trace)
    /\ RuleRequests(trace) # << >>
    /\ created + updated + deleted >= 1


(***************************************************************************)
(* The folder of the rules.                                                *)
(***************************************************************************)
SameIgnoringCase(a, b) ==
    /\ Len(a) = Len(b)
    /\ \A i \in 1..Len(a) : LowerChar(a[i]) = LowerChar(b[i])

\* the name a folder of the store goes by
NameOfFolder(group) == IF "group" \in DOMAIN group THEN group.group ELSE group.name

\* the folders of a list that have the configured name, whatever the case
Namesakes(groups) ==
    {n \in 1..Len(groups) :
        SameIgnoringCase(NameOfFolder(groups[n]), config.CONTROLD_FOLDER_NAME)}

FoldersFetched == \E n \in Sent(trace, "GET groups") : trace[n].ok

ConfigRejected == ~(ConfigNames \subseteq DOMAIN config) \/ MissingVars(config) # {}

SomeFetchFailed == \E n \in 1..Len(trace) : trace[n].kind \in FetchKinds /\ ~trace[n].ok

\* C14: a process that has ended has a non-zero exit code exactly when its
\* configuration was rejected or a request of the folder resolution, of the
\* inventory fetch or of the existing-rules fetch failed; every other run
\* ends with exit code 0, whatever its create, update and delete calls did.
C14_ExitCode ==
    pc = "done" => (exit_code # 0 <=> (ConfigRejected \/ SomeFetchFailed))


(***************************************************************************)
(* The calls of a run, one per hostname and in order.                      *)
(***************************************************************************)
\* C15: a run calls create, update or delete at most once for a hostname, in
\* dry-run and in apply mode: no two calls of a run, and no two requests of
\* its trace, name the same hostname, so a call that failed is not made again.
C15_NoRetry ==
    /\ \A n \in 1..Len(ops) : \A m \in 1..Len(ops) :
            ops[n].hostname = ops[m].hostname => n = m
    /\ \A n \in 1..Len(trace) : \A m \in 1..Len(trace) :
            (/\ trace[n].kind \in RuleKinds
             /\ trace[m].kind \in RuleKinds
             /\ trace[n].hostname = trace[m].hostname) => n = m
    /\ Len(ops) <= Cardinality(Keys(desired_records) \cup Keys(existing_map))

\* an apply run reached its summary after an update or a delete that failed,
\* and another request that followed it
C15_Witness ==
    /\ outcome = "ok"
    /\ \E n \in 1..Len(trace) :
          /\ trace[n].kind \in {"update", "delete"}
          /\ ~trace[n].ok
          /\ \E m \in 1..Len(trace) : m # n /\ trace[m].kind \in RuleKinds


GetKinds == {"GET groups", "GET devices", "GET services", "GET rules"}

\* the place of a request in the order of a run
Rank(kind) ==
    CASE kind = "GET groups" -> 1
      [] kind = "POST groups" -> 2
      [] kind = "GET devices" -> 3
      [] kind = "GET services" -> 4
      [] kind = "GET rules" -> 5
      [] kind = "backup" -> 6
      [] kind \in RuleKinds -> 7

IsPrefix(a, b) == Len(a) <= Len(b) /\ a = SubSeq(b, 1, Len(a))

\* the kinds of a sequence of requests never step back in rank, and only the
\* calls of the diff come more than once
InRankOrder(reqs) ==
    \A n \in 1..(Len(reqs) - 1) :
        /\ Rank(reqs[n].kind) <= Rank(reqs[n + 1].kind)
        /\ Rank(reqs[n].kind) = Rank(reqs[n + 1].kind) => reqs[n].kind \in RuleKinds

\* the inventory fetch (devices, then services), then the fetch of the existing
\* rules, then the calls of the diff in their order, all made before the summary
OrderedRun ==
    LET expected == ExpectedOps(desired_records, existing_map)
        said == SaidCalls(ops)
    IN  /\ InRankOrder(SelectSeq(trace, LAMBDA e :
                e.kind \in {"GET devices", "GET services", "GET rules"} \cup RuleKinds))
        /\ ops # << >> =>
                \A kind \in {"GET devices", "GET services", "GET rules"} :
                    \E n \in Sent(trace, kind) : trace[n].ok
        /\ IsPrefix(said, expected)
        /\ IF dry_run THEN RuleRequests(trace) = << >> ELSE SaidRequests(trace) = said
        /\ outcome = "ok" => said = expected

NoFetchAfter(kinds) ==
    \A n \in 1..Len(trace) :
        trace[n].kind \in kinds =>
            \A m \in (n + 1)..Len(trace) : trace[m].kind \notin GetKinds

\* C16 as stated: the requests of a run come in the order inventory fetch,
\* existing-rules fetch, calls of the diff (creates and updates in the order of
\* the desired mapping, then deletes in the order of the existing rules),
\* summary, and no fetch follows the first mutating request of the run.
C16_NoFetchAfterFirstMutation == OrderedRun /\ NoFetchAfter(MutatingKinds)

\* C16 amended: the requests of a run come in the order folder resolution (the
\* fetch of the folders and, when none matches, the create-folder request),
\* inventory fetch, existing-rules fetch, backup, calls of the diff in their
\* order, summary, each at most once but for the calls of the diff, and no
\* fetch follows the first create-rule, update-rule or delete-rule request.
C16_FixedOrder ==
    /\ OrderedRun
    /\ NoFetchAfter(RuleKinds)
    /\ InRankOrder(trace)
    /\ trace # << >> => trace[1].kind = "GET groups"

\* an apply run of three requests or more, creates and updates in the order
\* of the desired mapping and then a delete
C16_Witness ==
    /\ outcome = "ok"
    /\ Len(RuleRequests(trace)) >= 3
    /\ \E n \in 1..Len(trace) : \E m \in (n + 1)..Len(trace) :
          trace[n].kind \in {"create", "update"} /\ trace[m].kind = "delete"


(***************************************************************************)
(* The run after an apply run.                                             *)
(***************************************************************************)
\* what the rule requests of a trace that failed say, in order
FailedRequests(tr) ==
    LET reqs == SelectSeq(tr, LAMBDA e : e.kind \in RuleKinds /\ ~e.ok)
    IN  [n \in 1..Len(reqs) |->
            Said([op |-> reqs[n].kind, id |-> reqs[n].id,
                  hostname |-> reqs[n].hostname, ip |-> reqs[n].ip])]

AfterApplyRun ==
    /\ previous # << >>
    /\ ~previous[1].dry_run
    /\ previous[1].outcome = "ok"
    /\ outcome = "ok"

\* C17: the run that follows an apply run, on the same inventory and on the
\* store as that run left it, calls for exactly the operations whose requests
\* failed in that run, in their order, and in apply mode sends exactly those
\* requests; when no request of that run failed it calls for nothing and its
\* counts are zero.
C17_RerunRepairs ==
    AfterApplyRun =>
        /\ SaidCalls(ops) = FailedRequests(previous[1].trace)
        /\ ~dry_run => SaidRequests(trace) = FailedRequests(previous[1].trace)
        /\ NoCallFailed(previous[1].trace) =>
              (ops = << >> /\ created + updated + deleted = 0)

\* an apply run in which a request failed and another succeeded, followed by
\* an apply run that sent the failed request again, with success
C17_Witness ==
    /\ AfterApplyRun
    /\ ~dry_run
    /\ \E n \in 1..Len(previous[1].trace) :
          previous[1].trace[n].kind \in RuleKinds /\ previous[1].trace[n].ok
    /\ FailedRequests(previous[1].trace) # << >>
    /\ Len(RuleRequests(trace)) = Len(FailedRequests(previous[1].trace))
    /\ NoCallFailed(trace)


(***************************************************************************)
(* Existing rules without an identifier.                                   *)
(***************************************************************************)
HasId(rule) == "PK" \in DOMAIN rule /\ rule.PK # << >>

Identified(rules) == SelectSeq(rules, HasId)

\* the existing-rule map of a list of rules that all have distinct identifiers
MapOfIdentified(rules) ==
    [n \in 1..Len(rules) |->
        [k |-> rules[n].PK, v |-> [id |-> rules[n].PK, ip |-> rules[n].via]]]

\* C18: the existing-rule map of a run is the map of the fetched rules that
\* have an identifier, a rule with no 'PK' or an empty one being left out; so
\* every update and delete of the run names the identifier of a fetched rule,
\* never an empty one, and the calls and the counts of the run are those of
\* the diff against the identified rules alone.
C18_RulesWithoutIdAreIgnored ==
    PastBackup =>
        /\ existing_map = MapOfIdentified(Identified(existing_rules))
        /\ \A n \in 1..Len(ops) :
              ops[n].op \in {"update", "delete"} =>
                  /\ ops[n].id # << >>
                  /\ \E k \in 1..Len(existing_rules) :
                        HasId(existing_rules[k]) /\ existing_rules[k].PK = ops[n].id
        /\ IsPrefix(SaidCalls(ops),
                    ExpectedOps(desired_records, MapOfIdentified(Identified(existing_rules))))
        /\ updated + deleted <= Len(Identified(existing_rules))
        /\ outcome = "ok" =>
              LET calls == ExpectedOps(desired_records,
                                       MapOfIdentified(Identified(existing_rules)))
              IN  /\ SaidCalls(ops) = calls
                  /\ created <= Cardinality({n \in 1..Len(calls) : calls[n].op = "create"})
                  /\ updated <= Cardinality({n \in 1..Len(calls) : calls[n].op = "update"})
                  /\ deleted <= Cardinality({n \in 1..Len(calls) : calls[n].op = "delete"})
                  /\ dry_run => created + updated + deleted = Len(calls)

\* a run fetched a rule without 'PK', a rule with an empty 'PK' and a rule
\* with one, and updated or deleted the last
C18_Witness ==
    /\ outcome = "ok"
    /\ \E k \in 1..Len(existing_rules) : "PK" \notin DOMAIN existing_rules[k]
    /\ \E k \in 1..Len(existing_rules) :
          "PK" \in DOMAIN existing_rules[k] /\ existing_rules[k].PK = << >>
    /\ Len(existing_map) = 1
    /\ updated + deleted = 1

=============================================================================
